---- MODULE Spec2Model ----
(***************************************************************************)
(* Menu planner (streamlit_app.py): one form session per process, a        *)
(* preview built from the selections, and a menu log kept either in the    *)
(* local file data/menus.csv or in a remote worksheet.                     *)
(*                                                                         *)
(* Text is modelled as a sequence of one-character strings, so that the    *)
(* join of the dish names and the type inference of pandas.read_csv and of *)
(* the worksheet's USER_ENTERED mode are computed on the characters.       *)
(***************************************************************************)
EXTENDS Integers, Sequences, FiniteSets, TLC

\* ------------------------------------------------------------------ bounds
MaxLog == 2      \* a save starts only while both logs hold fewer rows
MaxTime == 2     \* datetime.now() is drawn from 1..MaxTime

Procs == {1, 2}  \* processes (sessions) sharing the two backends
Times == 1..MaxTime

\* --------------------------------------------------------------- constants
GROUP_KEYS_ORDER ==
  << "grains_and_pasta", "baked_vegetables", "potato_dishes",
     "fish_dishes", "chicken_dishes", "meat_dishes",
     "fried_snacks", "stuffed_vegetables", "soups" >>

Keys == { GROUP_KEYS_ORDER[i] : i \in 1..Len(GROUP_KEYS_ORDER) }

Sentinel == << "-" >>
Delimiter == << ",", " " >>
Digits == { "0", "1", "2", "3", "4", "5", "6", "7", "8", "9" }

\* ------------------------------------------------------ catalogs (inputs)
Rice == << "R", "i", "c", "e" >>
Fish == << "F", "i", "s", "h" >>
Soup == << "S", "o", "u", "p" >>
N007 == << "0", "0", "7" >>
Cold == << "c", "o", "l", "d" >>
NaN  == << >>    \* a missing cell of a DataFrame

Dish(name, notes) == [dish_name_hebrew |-> name, notes |-> notes]

\* all_dfs as the form loop leaves it: one DataFrame per key, empty where
\* the category has no catalog file.
DataDirA ==
  [k \in Keys |->
     CASE k = "grains_and_pasta" -> << Dish(Rice, NaN) >>
       [] k = "soups"            -> << Dish(Soup, Cold) >>
       [] OTHER                  -> << >>]

DataDirB ==
  [k \in Keys |->
     CASE k = "fish_dishes" -> << Dish(Fish, Cold), Dish(N007, NaN) >>
       [] OTHER             -> << >>]

DataDirs == { DataDirA, DataDirB }

\* ------------------------------------------------------- catalog files
REQUIRED_COLUMNS ==
  { "id", "dish_name_hebrew", "ingredients",
    "gross_yield_per_person", "gross_yield_per_gn1_1",
    "preparation_method", "notes" }

\* data/<group_key>.csv: whether it exists, whether read_csv can parse it,
\* the columns of its header and its rows
CsvFile(columns, rows) ==
  [exists |-> TRUE, readable |-> TRUE, columns |-> columns, rows |-> rows]
MissingCsv ==
  [exists |-> FALSE, readable |-> FALSE, columns |-> { }, rows |-> << >>]
BrokenCsv ==
  [exists |-> TRUE, readable |-> FALSE, columns |-> { }, rows |-> << >>]

\* faulty variant: the check of the columns is left out
load_group_csv_lenient(file) ==
  IF ~file.exists \/ ~file.readable
  THEN [df |-> << >>, warnings |-> 0]
  ELSE [df |-> file.rows, warnings |-> 0]

\* load_group_csv: the DataFrame returned and the number of st.warning calls
load_group_csv(file) ==
  IF ~file.exists THEN [df |-> << >>, warnings |-> 0]
  ELSE IF ~file.readable THEN [df |-> << >>, warnings |-> 0]
  ELSE IF REQUIRED_COLUMNS \ file.columns # { }
  THEN [df |-> << >>, warnings |-> 1]
  ELSE [df |-> file.rows, warnings |-> 0]

\* two data directories (inputs). In the first, meat_dishes.csv lacks the
\* notes column and chicken_dishes.csv cannot be parsed; in the second,
\* potato_dishes.csv lacks the id column. The other files are missing.
FilesA ==
  [k \in Keys |->
     CASE k = "grains_and_pasta" -> CsvFile(REQUIRED_COLUMNS, << Dish(Rice, NaN) >>)
       [] k = "soups"            -> CsvFile(REQUIRED_COLUMNS, << Dish(Soup, Cold) >>)
       [] k = "meat_dishes"      -> CsvFile(REQUIRED_COLUMNS \ { "notes" },
                                            << Dish(Fish, NaN) >>)
       [] k = "chicken_dishes"   -> BrokenCsv
       [] OTHER                  -> MissingCsv]

FilesB ==
  [k \in Keys |->
     CASE k = "fish_dishes"   -> CsvFile(REQUIRED_COLUMNS,
                                         << Dish(Fish, Cold), Dish(N007, NaN) >>)
       [] k = "potato_dishes" -> CsvFile(REQUIRED_COLUMNS \ { "id" },
                                         << Dish(Soup, Cold) >>)
       [] OTHER               -> MissingCsv]

CatalogFiles == { FilesA, FilesB }

\* options of the selectbox of one category (line 212)
options(df) ==
  IF df # << >>
  THEN << Sentinel >> \o [i \in 1..Len(df) |-> df[i].dish_name_hebrew]
  ELSE << Sentinel >>

Range(s) == { s[i] : i \in 1..Len(s) }

\* ------------------------------------------------------------ build_preview
\* notes of the first catalog row whose name is the chosen one ("" when the
\* catalog is empty, has no such row, or the cell is NaN)
RECURSIVE NotesOf(_, _)
NotesOf(df, chosen) ==
  IF df = << >> THEN << >>
  ELSE IF Head(df).dish_name_hebrew = chosen THEN Head(df).notes
  ELSE NotesOf(Tail(df), chosen)

\* faulty variant: the test against the sentinel is forgotten
IsChosenAny(chosen) == chosen # << >>

\* chosen and chosen != "-"
IsChosen(chosen) == chosen # << >> /\ chosen # Sentinel

\* the loop of build_preview from position i of GROUP_KEYS_ORDER on, the
\* counter standing at `counter`
RECURSIVE PreviewRows(_, _, _, _)
PreviewRows(dfs, choice, i, counter) ==
  IF i > Len(GROUP_KEYS_ORDER) THEN << >>
  ELSE LET key    == GROUP_KEYS_ORDER[i]
           chosen == choice[key]
       IN IF IsChosen(chosen)
          THEN << [num |-> counter, name |-> chosen,
                   notes |-> NotesOf(dfs[key], chosen)] >>
               \o PreviewRows(dfs, choice, i + 1, counter + 1)
          ELSE PreviewRows(dfs, choice, i + 1, counter)

\* -------------------------------------------------------------- text helpers
\* ", ".join(names)
RECURSIVE Join(_)
Join(names) ==
  IF names = << >> THEN << >>
  ELSE IF Len(names) = 1 THEN names[1]
  ELSE names[1] \o Delimiter \o Join(Tail(names))

\* text that a type-inferring reader takes for an integer
IsIntText(s) == Len(s) > 0 /\ \A i \in 1..Len(s) : s[i] \in Digits

\* the integer read from s, printed again: leading zeros are gone
RECURSIVE IntText(_)
IntText(s) ==
  IF Len(s) > 1 /\ s[1] = "0" THEN IntText(Tail(s)) ELSE s

\* ---------------------------------------------------------------- rows
NoRow == [id |-> 0, dishes |-> << >>, at_date |-> 0]

Ids(rows) == { rows[i].id : i \in 1..Len(rows) }

Max(S) == CHOOSE m \in S : \A x \in S : x <= m

\* ------------------------------------------------------------ local file
NoFile == [exists |-> FALSE, rows |-> << >>]

\* pd.read_csv(LOCAL_MENU_LOG): the id and at_date columns come back as
\* written; the dishes column is inferred to be integer when every cell of
\* it is integer text, and is text otherwise.
read_csv(file) ==
  IF file.rows # << >> /\ \A i \in 1..Len(file.rows) : IsIntText(file.rows[i].dishes)
  THEN [i \in 1..Len(file.rows) |->
          [file.rows[i] EXCEPT !.dishes = IntText(file.rows[i].dishes)]]
  ELSE file.rows

\* faulty variant: the frames are concatenated the other way round
concat_front(df, row) == << row >> \o df

\* pd.concat([df, pd.DataFrame([row])], ignore_index=True)
concat(df, row) == Append(df, row)

\* df.to_csv(LOCAL_MENU_LOG, index=False)
to_csv(df) == [exists |-> TRUE, rows |-> df]

\* faulty variant: the largest id is returned as it is
next_menu_id_local_max(file) ==
  IF ~file.exists THEN 1
  ELSE LET df == read_csv(file)
       IN IF df = << >> THEN 1 ELSE Max(Ids(df))

next_menu_id_local(file) ==
  IF ~file.exists THEN 1
  ELSE LET df == read_csv(file)
       IN IF df = << >> THEN 1 ELSE Max(Ids(df)) + 1

\* ------------------------------------------------------- remote worksheet
\* The worksheet as a grid: `header` says that row 1 holds id, dishes,
\* at_date; `rows` are the other rows, top to bottom. Without a header the
\* first of `rows` lies in row 1 of the grid.
NoSheet == [exists |-> FALSE, header |-> FALSE, rows |-> << >>]

\* value_input_option="USER_ENTERED": the service types each cell as if it
\* had been typed in, so integer text becomes a number.
UserEntered(r) ==
  [r EXCEPT !.dishes = IF IsIntText(@) THEN IntText(@) ELSE @]

\* sh.add_worksheet(title=sheet_name, rows=1000, cols=3)
add_worksheet == [exists |-> TRUE, header |-> FALSE, rows |-> << >>]

\* faulty variant: the header is not written
update_header_skipped(w) == w

\* ws.update("A1:C1", [["id", "dishes", "at_date"]]): row 1 of the grid is
\* overwritten with the header
update_header(w) ==
  IF ~w.header /\ w.rows # << >>
  THEN [w EXCEPT !.header = TRUE, !.rows = Tail(w.rows)]
  ELSE [w EXCEPT !.header = TRUE]

\* faulty variant: a row whose id the worksheet holds is not added
append_row_unique(w, r) ==
  IF r.id \in Ids(w.rows) THEN w
  ELSE [w EXCEPT !.rows = Append(w.rows, UserEntered(r))]

\* ws.append_row([...], value_input_option="USER_ENTERED")
append_row(w, r) == [w EXCEPT !.rows = Append(w.rows, UserEntered(r))]

\* ws.get_all_records(): row 1 of the grid gives the keys, every further row
\* is one dict. Only under the written header do the dicts have the key "id".
get_all_records(w) ==
  IF w.header
  THEN [i \in 1..Len(w.rows) |-> [has_id |-> TRUE, id |-> w.rows[i].id]]
  ELSE IF w.rows = << >> THEN << >>
  ELSE [i \in 1..(Len(w.rows) - 1) |-> [has_id |-> FALSE, id |-> 0]]

\* the stages of the remote read at which an exception may be raised
ReadStages == { "client", "open", "worksheet", "records" }

\* next_menu_id_gsheets(); outcome is "ok" or the stage that raises
next_menu_id_gsheets(file, w, outcome) ==
  IF outcome \in { "client", "open" } THEN next_menu_id_local(file)
  ELSE IF outcome = "worksheet" \/ ~w.exists THEN 1
  ELSE IF outcome = "records" THEN next_menu_id_local(file)
  ELSE LET vals == get_all_records(w)
           ids  == { vals[i].id : i \in { j \in 1..Len(vals) : vals[j].has_id } }
       IN IF vals = << >> THEN 1
          ELSE Max(ids \cup { 0 }) + 1

\* ------------------------------------------------------------------ state
VARIABLES
  enabled,     \* gsheets_enabled(): the static configuration flag
  secrets_ok,  \* st.secrets can be read and its "gsheets" entry is a table
  files,       \* the catalog files of data/
  warned,      \* st.warning calls of load_group_csv, per category
  all_dfs,     \* the catalogs the form loop loaded
  localFile,   \* data/menus.csv
  ws,          \* the remote worksheet
  sel,         \* st.session_state["sel_<key>"] of each session
  preview,     \* st.session_state.preview of each session
  pc,          \* where each session's running callback stands
  row,         \* the row save_menu is building
  df,          \* the DataFrame append_menu_to_local_csv read
  status,      \* the message the last callback showed
  src,         \* how next_menu_id got its value in this save
  calls        \* store operations entered by the running or last save

\* what is fixed when the process starts
static == << enabled, secrets_ok, files, warned, all_dfs >>

vars == << static, localFile, ws, sel, preview, pc, row, df,
           status, src, calls >>

Msg(kind, cause) == [kind |-> kind, cause |-> cause]
NoMsg == Msg("none", "none")

\* files a run with the flag off leaves in data/ for a later run
OldFiles ==
  { NoFile,
    to_csv(<< >>),
    to_csv(<< [id |-> 1, dishes |-> Rice, at_date |-> 1] >>) }

\* lines 208-210: every catalog is loaded when the script runs
FormLoop ==
  /\ all_dfs = [k \in Keys |-> load_group_csv(files[k]).df]
  /\ warned = [k \in Keys |-> load_group_csv(files[k]).warnings]

Init ==
  /\ secrets_ok \in BOOLEAN
  /\ enabled \in { e \in BOOLEAN : e => secrets_ok }
  /\ files \in CatalogFiles
  /\ FormLoop
  /\ localFile \in OldFiles
  /\ ws = NoSheet
  /\ sel = [p \in Procs |-> [k \in Keys |-> Sentinel]]
  /\ preview = [p \in Procs |-> << >>]
  /\ pc = [p \in Procs |-> "idle"]
  /\ row = [p \in Procs |-> NoRow]
  /\ df = [p \in Procs |-> << >>]
  /\ status = [p \in Procs |-> NoMsg]
  /\ src = [p \in Procs |-> "none"]
  /\ calls = [p \in Procs |-> 0]

\* a callback starts: what the previous one left behind is gone
Rerun(p) ==
  /\ df' = [df EXCEPT ![p] = << >>]
  /\ src' = [src EXCEPT ![p] = "none"]
  /\ calls' = [calls EXCEPT ![p] = 0]

\* ------------------------------------------------------------ form actions
\* the user changes the selectbox of one category
SelectDish(p) ==
  /\ pc[p] = "idle"
  /\ \E key \in Keys : \E v \in Range(options(all_dfs[key])) :
       /\ v # sel[p][key]
       /\ sel' = [sel EXCEPT ![p][key] = v]
  /\ status' = [status EXCEPT ![p] = NoMsg]
  /\ row' = [row EXCEPT ![p] = NoRow]
  /\ Rerun(p)
  /\ UNCHANGED << static, localFile, ws, preview, pc >>

build_preview(p) ==
  /\ pc[p] = "idle"
  /\ preview' = [preview EXCEPT ![p] = PreviewRows(all_dfs, sel[p], 1, 1)]
  /\ status' = [status EXCEPT ![p] = NoMsg]
  /\ row' = [row EXCEPT ![p] = NoRow]
  /\ Rerun(p)
  /\ UNCHANGED << static, localFile, ws, sel, pc >>

\* ---------------------------------------------------------------- save_menu
\* faulty variant: the guard on the preview never fires
PreviewEmptyNever(pv) == FALSE

\* st.session_state.preview.empty
PreviewEmpty(pv) == pv = << >>

\* [str(x) for x in preview["name"].tolist()]
DishesList(pv) == [i \in 1..Len(pv) |-> pv[i].name]

WithinBounds == Len(localFile.rows) < MaxLog /\ Len(ws.rows) < MaxLog

\* datetime.now(IL_TZ): no earlier than any time already in a log
Stamped == { r.at_date : r \in Range(localFile.rows) \cup Range(ws.rows) }
Now == { t \in Times : \A u \in Stamped : u <= t }

\* lines 272-276: the guard on the preview, then the dishes of the row
save_menu(p) ==
  /\ pc[p] = "idle"
  /\ WithinBounds
  /\ Rerun(p)
  /\ IF PreviewEmpty(preview[p])
     THEN /\ status' = [status EXCEPT ![p] = Msg("warning", "none")]
          /\ row' = [row EXCEPT ![p] = NoRow]
          /\ UNCHANGED pc
     ELSE /\ status' = [status EXCEPT ![p] = NoMsg]
          /\ pc' = [pc EXCEPT ![p] = "next_menu_id"]
          /\ row' = [row EXCEPT ![p] =
                       [id |-> 0, dishes |-> Join(DishesList(preview[p])), at_date |-> 0]]
  /\ UNCHANGED << static, localFile, ws, sel, preview >>

\* faulty variant: the flag is ignored and the local backend is used
gsheets_disabled == FALSE

\* bool(st.secrets.get("gsheets", {}).get("enabled", False))
gsheets_enabled == enabled

\* an exception no try block of the callback encloses: the callback ends
\* there and the app shows the traceback instead of a message of its own
Uncaught(p, cause) ==
  /\ status' = [status EXCEPT ![p] = Msg("exception", cause)]
  /\ pc' = [pc EXCEPT ![p] = "idle"]
  /\ row' = [row EXCEPT ![p] = NoRow]

\* faulty variant: the lookup creates the worksheet it does not find
next_menu_id_creating(p) ==
  /\ pc[p] = "next_menu_id"
  /\ IF ~secrets_ok
     THEN Uncaught(p, "gsheets_enabled") /\ UNCHANGED << src, calls >>
     ELSE /\ \E outcome \in { "ok" } \cup ReadStages : \E t \in Now :
               /\ gsheets_enabled \/ outcome = "ok"
               /\ outcome = "records" => ws.exists
               /\ row' = [row EXCEPT ![p].id =
                            IF gsheets_enabled
                            THEN next_menu_id_gsheets(localFile, ws, outcome)
                            ELSE next_menu_id_local(localFile),
                          ![p].at_date = t]
               /\ src' = [src EXCEPT ![p] = IF gsheets_enabled THEN outcome ELSE "local"]
          /\ calls' = [calls EXCEPT ![p] = @ + 1]
          /\ pc' = [pc EXCEPT ![p] = "append"]
          /\ UNCHANGED status
  /\ ws' = IF secrets_ok /\ gsheets_enabled /\ ~ws.exists THEN add_worksheet ELSE ws
  /\ UNCHANGED << static, localFile, sel, preview, df >>

\* lines 278-280: next_menu_id(), then datetime.now(IL_TZ). The call stands
\* before the try of line 283; gsheets_enabled() raises when the secrets
\* cannot be read.
next_menu_id(p) ==
  /\ pc[p] = "next_menu_id"
  /\ IF ~secrets_ok
     THEN Uncaught(p, "gsheets_enabled") /\ UNCHANGED << src, calls >>
     ELSE /\ \E outcome \in { "ok" } \cup ReadStages : \E t \in Now :
               /\ gsheets_enabled \/ outcome = "ok"
               /\ outcome = "records" => ws.exists
               /\ row' = [row EXCEPT ![p].id =
                            IF gsheets_enabled
                            THEN next_menu_id_gsheets(localFile, ws, outcome)
                            ELSE next_menu_id_local(localFile),
                          ![p].at_date = t]
               /\ src' = [src EXCEPT ![p] = IF gsheets_enabled THEN outcome ELSE "local"]
          /\ calls' = [calls EXCEPT ![p] = @ + 1]
          /\ pc' = [pc EXCEPT ![p] = "append"]
          /\ UNCHANGED status
  /\ UNCHANGED << static, localFile, ws, sel, preview, df >>

\* faulty variant: after the error message the append is tried again
FailRetry(p, cause) ==
  /\ status' = [status EXCEPT ![p] = Msg("error", cause)]
  /\ pc' = [pc EXCEPT ![p] = "append"]
  /\ UNCHANGED row

\* faulty variant: the exception is swallowed and success is shown
FailQuiet(p, cause) ==
  /\ status' = [status EXCEPT ![p] = Msg("success", "none")]
  /\ pc' = [pc EXCEPT ![p] = "idle"]
  /\ row' = [row EXCEPT ![p] = NoRow]

\* the except branch of save_menu: st.error(f"...: {e}")
Fail(p, cause) ==
  /\ status' = [status EXCEPT ![p] = Msg("error", cause)]
  /\ pc' = [pc EXCEPT ![p] = "idle"]
  /\ row' = [row EXCEPT ![p] = NoRow]

\* st.success(f"... (id={row['id']})")
Succeed(p) ==
  /\ status' = [status EXCEPT ![p] = Msg("success", "none")]
  /\ pc' = [pc EXCEPT ![p] = "idle"]
  /\ UNCHANGED row

\* append_menu_to_gsheets, lines 135-145: client, document, worksheet
gs_worksheet(p) ==
  /\ pc[p] = "append"
  /\ gsheets_enabled
  /\ calls' = [calls EXCEPT ![p] = @ + 1]
  /\ \E outcome \in { "ok", "client", "open", "worksheet", "add_worksheet" } :
       IF outcome \in { "client", "open" }
       THEN Fail(p, outcome) /\ UNCHANGED ws
       ELSE IF outcome = "ok" /\ ws.exists
       THEN pc' = [pc EXCEPT ![p] = "append_row"] /\ UNCHANGED << ws, status, row >>
       ELSE IF outcome = "add_worksheet" \/ ws.exists
       THEN Fail(p, "add_worksheet") /\ UNCHANGED ws
       ELSE /\ ws' = add_worksheet
            /\ pc' = [pc EXCEPT ![p] = "update"]
            /\ UNCHANGED << status, row >>
  /\ src' = [src EXCEPT ![p] = "none"]
  /\ UNCHANGED << static, localFile, sel, preview, df >>

\* line 145: the header of the worksheet just created
gs_update(p) ==
  /\ pc[p] = "update"
  /\ \E ok \in BOOLEAN :
       IF ok
       THEN /\ ws' = update_header(ws)
            /\ pc' = [pc EXCEPT ![p] = "append_row"]
            /\ UNCHANGED << status, row >>
       ELSE Fail(p, "update") /\ UNCHANGED ws
  /\ UNCHANGED << static, localFile, sel, preview, df, src, calls >>

\* line 147, and the success message of line 286
gs_append_row(p) ==
  /\ pc[p] = "append_row"
  /\ \E ok \in BOOLEAN :
       IF ok
       THEN ws' = append_row(ws, row[p]) /\ Succeed(p)
       ELSE Fail(p, "append_row") /\ UNCHANGED ws
  /\ UNCHANGED << static, localFile, sel, preview, df, src, calls >>

\* append_menu_to_local_csv, lines 150-151: does the file exist?
local_exists(p) ==
  /\ pc[p] = "append"
  /\ ~gsheets_enabled
  /\ calls' = [calls EXCEPT ![p] = @ + 1]
  /\ pc' = [pc EXCEPT ![p] = IF localFile.exists THEN "read" ELSE "create"]
  /\ src' = [src EXCEPT ![p] = "none"]
  /\ UNCHANGED << static, localFile, ws, sel, preview, row, df, status >>

\* line 152: the file is created holding the one row
local_create(p) ==
  /\ pc[p] = "create"
  /\ \E ok \in BOOLEAN :
       IF ok
       THEN /\ localFile' = to_csv(<< row[p] >>)
            /\ df' = [df EXCEPT ![p] = << >>]
            /\ Succeed(p)
       ELSE Fail(p, "to_csv") /\ UNCHANGED << localFile, df >>
  /\ UNCHANGED << static, ws, sel, preview, src, calls >>

\* line 154
local_read(p) ==
  /\ pc[p] = "read"
  /\ df' = [df EXCEPT ![p] = read_csv(localFile)]
  /\ pc' = [pc EXCEPT ![p] = "write"]
  /\ UNCHANGED << static, localFile, ws, sel, preview, row, status, src, calls >>

\* lines 155-156, and the success message of line 289
local_write(p) ==
  /\ pc[p] = "write"
  /\ \E ok \in BOOLEAN :
       IF ok
       THEN localFile' = to_csv(concat(df[p], row[p])) /\ Succeed(p)
       ELSE Fail(p, "to_csv") /\ UNCHANGED localFile
  /\ UNCHANGED << static, ws, sel, preview, df, src, calls >>

SaveStep(p) ==
  \/ save_menu(p)
  \/ next_menu_id(p)
  \/ gs_worksheet(p)
  \/ gs_update(p)
  \/ gs_append_row(p)
  \/ local_exists(p)
  \/ local_create(p)
  \/ local_read(p)
  \/ local_write(p)

\* ---------------------------------------------------------- specifications
\* one writer: session 1 alone uses the form and the backends
Next ==
  \/ SelectDish(1)
  \/ build_preview(1)
  \/ SaveStep(1)

Spec == Init /\ [][Next]_vars

\* every assignment of one option to each selectbox
Selections(dfs) ==
  LET live  == { k \in Keys : dfs[k] # << >> }
      names == UNION { Range(options(dfs[k])) : k \in live }
  IN { [k \in Keys |-> IF k \in live THEN g[k] ELSE Sentinel] :
         g \in { h \in [live -> names] :
                   \A k \in live : h[k] \in Range(options(dfs[k])) } }

\* two writers: sessions 1 and 2, each with a preview already built from
\* its selections, save against the same backends with their steps
\* interleaved
InitConc ==
  /\ secrets_ok = TRUE
  /\ enabled \in BOOLEAN
  /\ files = FilesA
  /\ FormLoop
  /\ localFile \in OldFiles \ { to_csv(<< >>) }
  /\ ws = NoSheet
  /\ sel \in [Procs -> Selections(all_dfs)]
  /\ preview = [p \in Procs |-> PreviewRows(all_dfs, sel[p], 1, 1)]
  /\ pc = [p \in Procs |-> "idle"]
  /\ row = [p \in Procs |-> NoRow]
  /\ df = [p \in Procs |-> << >>]
  /\ status = [p \in Procs |-> NoMsg]
  /\ src = [p \in Procs |-> "none"]
  /\ calls = [p \in Procs |-> 0]

NextConc == \E p \in Procs : SaveStep(p)

SpecConc == InitConc /\ [][NextConc]_vars

\* ------------------------------------------------------------------ claims
\* the log of the configured backend
TargetRows == IF enabled THEN ws.rows ELSE localFile.rows

AppendPcs == { "append", "update", "append_row", "create", "read", "write" }

\* C1: with one writer, the id next_menu_id() returned (held by the row
\* that is about to be appended) is strictly greater than every id in the
\* log of the configured backend.
C1_NextIdAboveLog ==
  \A p \in Procs :
    pc[p] = "append" =>
      \A i \in 1..Len(TargetRows) : row[p].id > TargetRows[i].id

\* C2: with the local backend and one writer, the N rows of the log carry
\* the ids 1..N in order and next_menu_id_local() is N+1 (1 for an absent
\* or empty log).
C2_LocalIdsCount ==
  ~enabled =>
    /\ \A i \in 1..Len(localFile.rows) : localFile.rows[i].id = i
    /\ next_menu_id_local(localFile) = Len(localFile.rows) + 1

\* C2 witness: a log begun by this run (its first row is not the old
\* file's) holds two rows after two local appends.
C2_Witness ==
  /\ ~enabled
  /\ pc[1] = "idle"
  /\ status[1].kind = "success"
  /\ Len(localFile.rows) = 2
  /\ localFile.rows[1].dishes = Fish

\* C3: with the remote backend enabled, whenever the remote read of
\* next_menu_id raised at any stage, the id returned is the one
\* next_menu_id_local() computes from the local log.
C3_FallbackIsLocal ==
  \A p \in Procs :
    (enabled /\ pc[p] = "append" /\ src[p] \in ReadStages) =>
      row[p].id = next_menu_id_local(localFile)

\* C4: with the remote backend enabled, a save step that ends the callback
\* either reports success, or reports an error that names its cause and
\* leaves the rows of the worksheet as they were; worksheet rows appear
\* only with a success; and the local file does not change at all.
C4_RemoteFailureIsLoud ==
  [][ enabled =>
        /\ localFile' = localFile
        /\ ws'.rows # ws.rows =>
             \E p \in Procs : pc[p] = "append_row" /\ status'[p].kind = "success"
        /\ \A p \in Procs :
             (pc[p] \in AppendPcs /\ pc'[p] = "idle") =>
               \/ status'[p].kind = "success" /\ ws'.rows # ws.rows
               \/ /\ status'[p].kind = "error"
                  /\ status'[p].cause \in
                       { "client", "open", "add_worksheet", "update", "append_row" }
                  /\ ws'.rows = ws.rows ]_vars

\* C4 witness: the append_row call failed on a worksheet the save had just
\* created; the error names it and neither log holds a row.
C4_Witness ==
  /\ enabled
  /\ status[1] = Msg("error", "append_row")
  /\ ws.exists /\ ws.header /\ ws.rows = << >>
  /\ localFile = NoFile

\* C5: save_menu on an empty preview shows a warning, enters no store
\* operation and leaves both logs as they were.
C5_EmptyPreviewRejected ==
  [][ \A p \in Procs :
        (save_menu(p) /\ preview[p] = << >>) =>
          /\ status'[p] = Msg("warning", "none")
          /\ pc'[p] = "idle"
          /\ calls'[p] = 0
          /\ localFile' = localFile
          /\ ws' = ws ]_vars

\* C5 witness: the warning is up although a dish is selected, the preview
\* never having been built from it.
C5_Witness ==
  /\ status[1].kind = "warning"
  /\ preview[1] = << >>
  /\ sel[1]["grains_and_pasta"] = Rice
  /\ calls[1] = 0

\* positions of GROUP_KEYS_ORDER whose selection is not the sentinel
ChosenAt(choice) ==
  { i \in 1..Len(GROUP_KEYS_ORDER) : choice[GROUP_KEYS_ORDER[i]] # Sentinel }

\* the j-th smallest of a set of positions
Nth(S, j) == CHOOSE i \in S : Cardinality({ k \in S : k <= i }) = j

\* C6: build_preview leaves exactly one row per category whose selection
\* is not the sentinel, in the order of GROUP_KEYS_ORDER, numbered 1..k,
\* each with the name selected in its category; no row is a sentinel's.
C6_PreviewRowsInKeyOrder ==
  [][ \A p \in Procs :
        build_preview(p) =>
          LET pv == preview'[p]
              at == ChosenAt(sel[p])
          IN /\ Len(pv) = Cardinality(at)
             /\ \A j \in 1..Len(pv) :
                  /\ pv[j].num = j
                  /\ pv[j].name = sel[p][GROUP_KEYS_ORDER[Nth(at, j)]]
                  /\ pv[j].name # Sentinel ]_vars

\* C6 witness: the first and the last category are selected, the seven
\* between them are at the sentinel, and the preview built from that holds
\* the two rows in category order.
C6_Witness ==
  /\ sel[1]["grains_and_pasta"] = Rice
  /\ sel[1]["soups"] = Soup
  /\ Len(preview[1]) = 2
  /\ preview[1][1].name = Rice /\ preview[1][1].num = 1
  /\ preview[1][2].name = Soup /\ preview[1][2].num = 2

\* C7: with one writer, a local append that reports success leaves the
\* log holding the rows it held before, unchanged and in order, followed
\* by the new entry.
C7_LocalAppendKeepsRows ==
  [][ \A p \in Procs :
        (pc[p] \in { "create", "write" } /\ status'[p].kind = "success") =>
          localFile'.rows = Append(localFile.rows, row[p]) ]_vars

\* rows of a log that carry the id n
WithId(rows, n) == { i \in 1..Len(rows) : rows[i].id = n }

\* C8: neither backend refuses an id it already holds: an append that
\* succeeds with an id present in the log it appends to leaves two rows
\* with that id.
C8_AppendKeepsDuplicateId ==
  [][ \A p \in Procs :
        /\ ( /\ pc[p] = "append_row" /\ status'[p].kind = "success"
             /\ row[p].id \in Ids(ws.rows) )
           => Cardinality(WithId(ws'.rows, row[p].id)) >= 2
        /\ ( /\ pc[p] = "write" /\ status'[p].kind = "success"
             /\ row[p].id \in Ids(df[p]) )
           => Cardinality(WithId(localFile'.rows, row[p].id)) >= 2 ]_vars

\* C8 witness: both sessions computed the same id from the local log (no
\* fallback is involved there), both appends reported success, and the log
\* holds two rows with that id.
C8_Witness ==
  /\ ~enabled
  /\ \A p \in Procs : pc[p] = "idle" /\ status[p].kind = "success"
  /\ row[1].id = row[2].id
  /\ Cardinality(WithId(localFile.rows, row[1].id)) = 2

\* C9: when the last successful local appends of the two sessions started
\* from snapshots of the same length (each read before the other wrote),
\* the log holds one row more than the snapshot, and that row is the entry
\* of one of the two: the other append is lost.
C9_LastWriterWins ==
  ( /\ ~enabled
    /\ \A p \in Procs : pc[p] = "idle" /\ status[p].kind = "success"
    /\ Len(df[1]) = Len(df[2]) )
  => /\ Len(localFile.rows) = Len(df[1]) + 1
     /\ localFile.rows[Len(localFile.rows)] \in { row[1], row[2] }

\* C9 witness: both appends reported success and the entry of one of them
\* is not in the log.
C9_Witness ==
  /\ ~enabled
  /\ \A p \in Procs : pc[p] = "idle" /\ status[p].kind = "success"
  /\ Len(df[1]) = Len(df[2])
  /\ row[1] # row[2]
  /\ \E p \in Procs : row[p] \notin Range(localFile.rows)

\* C10: with one writer, the logs grow only in the step that ends a save
\* with success, and that step adds exactly one row (carrying the id of
\* the entry) to the log the flag selects and leaves the other backend as
\* it was.
C10_OneBackendOneRow ==
  [][ /\ ( Len(ws'.rows) # Len(ws.rows) \/ Len(localFile'.rows) # Len(localFile.rows) )
        => \E p \in Procs :
             pc[p] \in AppendPcs /\ pc'[p] = "idle" /\ status'[p].kind = "success"
      /\ \A p \in Procs :
           (pc[p] \in AppendPcs /\ pc'[p] = "idle" /\ status'[p].kind = "success") =>
             IF enabled
             THEN /\ Len(ws'.rows) = Len(ws.rows) + 1
                  /\ ws'.rows[Len(ws'.rows)].id = row[p].id
                  /\ localFile' = localFile
             ELSE /\ Len(localFile'.rows) = Len(localFile.rows) + 1
                  /\ localFile'.rows[Len(localFile'.rows)].id = row[p].id
                  /\ ws' = ws ]_vars

\* C10 witness: two saves succeeded against the worksheet, which holds two
\* rows, and the local file was never created.
C10_Witness ==
  /\ enabled
  /\ pc[1] = "idle" /\ status[1].kind = "success"
  /\ Len(ws.rows) = 2
  /\ localFile = NoFile

\* C11: no callback ends with an uncaught exception: whatever fails
\* (configuration lookup, id read, local or remote append), what the
\* session shows is a success, a warning or an error message of the
\* callback, or nothing (after a selection or a build).
C11_NoUncaughtException ==
  \A p \in Procs : status[p].kind \in { "none", "success", "warning", "error" }

\* names of the rows of a catalog file
FileNames(file) == { file.rows[i].dish_name_hebrew : i \in 1..Len(file.rows) }

LacksColumn(file) ==
  file.exists /\ file.readable /\ REQUIRED_COLUMNS \ file.columns # { }

\* C12: loading the catalogs leaves the frames of the well-formed files
\* only; a missing file gives an empty catalog and no warning, a file
\* lacking a required column an empty catalog and exactly one warning; such
\* a category offers the sentinel alone, stays at the sentinel and gives no
\* row to any preview.
C12_BadCatalogIsEmpty ==
  /\ all_dfs \in DataDirs
  /\ \A k \in Keys :
       /\ ~files[k].exists => (all_dfs[k] = << >> /\ warned[k] = 0)
       /\ LacksColumn(files[k]) => (all_dfs[k] = << >> /\ warned[k] = 1)
       /\ (~files[k].exists \/ LacksColumn(files[k])) =>
            /\ options(all_dfs[k]) = << Sentinel >>
            /\ \A p \in Procs :
                 /\ sel[p][k] = Sentinel
                 /\ \A j \in 1..Len(preview[p]) :
                      preview[p][j].name \notin FileNames(files[k])

\* C12 witness: meat_dishes.csv lacks the notes column and was warned about
\* once, most other files are missing, and a preview of two rows was built
\* from the two well-formed catalogs.
C12_Witness ==
  /\ files = FilesA
  /\ all_dfs = DataDirA
  /\ warned["meat_dishes"] = 1
  /\ warned["fish_dishes"] = 0
  /\ Len(preview[1]) = 2

C14_HeaderBeforeRows ==
  [][ \A p \in Procs :
        /\ (pc[p] = "append" /\ pc'[p] = "update") =>
             (~ws.exists /\ ws' = [exists |-> TRUE, header |-> FALSE, rows |-> << >>])
        /\ (pc[p] = "append" /\ pc'[p] = "append_row") =>
             (ws.exists /\ ws' = ws)
        /\ (pc[p] = "update" /\ pc'[p] = "append_row") =>
             (ws.rows = << >> /\ ws'.exists /\ ws'.header /\ ws'.rows = << >>)
        /\ (pc[p] = "append_row" /\ status'[p].kind = "success") =>
             /\ ws'.exists
             /\ ws'.header = ws.header
             /\ ws'.rows = Append(ws.rows, UserEntered(row[p]))
             /\ ws'.rows[Len(ws'.rows)].id = row[p].id
        /\ (pc[p] \in { "append", "update", "append_row" }
              /\ status'[p].kind = "error") => ws' = ws ]_vars

\* C14 witness: the worksheet was created with its header by one successful
\* save and a second successful save has put its entry after the first.
C14_Witness ==
  /\ gsheets_enabled
  /\ status[1].kind = "success"
  /\ ws.exists /\ ws.header
  /\ Len(ws.rows) = 2
  /\ ws.rows[2].at_date >= ws.rows[1].at_date

\* C15: one save_menu makes at most one append attempt. The append is
\* entered only from the id step and the id step only from the idle session
\* (the click); a failing step of the append shows one error message, ends
\* the callback with the row dropped and leaves both logs as they were; the
\* logs change only inside a running append; a callback makes at most two
\* backend calls (the id, the append).
C15_NoRetry ==
  [][ /\ \A p \in Procs :
           /\ (pc'[p] = "append" /\ pc[p] # "append") => pc[p] = "next_menu_id"
           /\ (pc'[p] = "next_menu_id" /\ pc[p] # "next_menu_id") => pc[p] = "idle"
           /\ (pc[p] \in AppendPcs /\ status'[p].kind = "error") =>
                /\ status[p] = NoMsg
                /\ pc'[p] = "idle"
                /\ row'[p] = NoRow
                /\ ws' = ws
                /\ localFile' = localFile
           /\ calls'[p] <= 2
      /\ (ws' # ws \/ localFile' # localFile) =>
           \E p \in Procs : pc[p] \in AppendPcs ]_vars

\* C15 witness: the remote append failed at append_row after the worksheet
\* and its header were created; the error is shown, the callback is over
\* and the entry is not in the worksheet.
C15_Witness ==
  /\ gsheets_enabled
  /\ status[1] = Msg("error", "append_row")
  /\ pc[1] = "idle"
  /\ row[1] = NoRow
  /\ ws.exists /\ ws.header /\ ws.rows = << >>

\* C16: with one writer and a log that started absent or empty, the ids of
\* the rows of the configured backend's log are pairwise distinct and
\* strictly increasing in insertion order, whichever remote calls failed.
\* (With the remote backend the local file is taken to be absent, so that
\* no earlier log of any kind exists.)
C16_IdsStrictlyIncrease ==
  (enabled => ~localFile.exists) =>
    \A i, j \in 1..Len(TargetRows) :
      i < j => TargetRows[i].id < TargetRows[j].id

\* a step changes the preview of a session only by building it from the
\* selections of that moment, in an idle session, selections untouched
PreviewOnlyBuilt ==
  \A p \in Procs :
    preview'[p] # preview[p] =>
      /\ pc[p] = "idle" /\ pc'[p] = "idle"
      /\ preview'[p] = PreviewRows(all_dfs, sel[p], 1, 1)
      /\ sel' = sel
      /\ localFile' = localFile /\ ws' = ws

\* the step that ends a save with success leaves as last row of the
\* configured backend's log an entry whose dishes are the join of the names
\* of the preview
SavedDishesAreJoin ==
  \A p \in Procs :
    (pc[p] \in AppendPcs /\ pc'[p] = "idle" /\ status'[p].kind = "success") =>
      LET rows == IF enabled THEN ws'.rows ELSE localFile'.rows
      IN /\ rows # << >>
         /\ rows[Len(rows)].dishes = Join(DishesList(preview[p]))

\* C17: the preview is changed only by build_preview (a selection and a
\* save leave it as it was), and the dishes of a saved entry are the ", "
\* join of the names of the preview as last built.
C17_DishesAsOfLastBuild ==
  [][ PreviewOnlyBuilt /\ SavedDishesAreJoin ]_vars

====
